---- MODULE Spec2Model ----
(***************************************************************************)
(* Model of backend/server.py: the in-memory session table, the            *)
(* session -> WebSocket map, the four HTTP handlers that touch them and    *)
(* the WebSocket endpoint.  Handlers are asyncio coroutines: each action   *)
(* below is one run of a handler between two of its await points.          *)
(***************************************************************************)
EXTENDS Integers, Sequences, FiniteSets, TLC

\* Bounds of the model: sessions created, connections accepted, HTTP
\* handlers in flight at once, HTTP requests received in all, and the length
\* of a message text.
MaxSessions == 2
MaxConns == 2
MaxReqs == 2
MaxCalls == 2
MaxLen == 1

SessionIds == 1 .. MaxSessions
Conns == 1 .. MaxConns
Reqs == 1 .. MaxReqs

\* The falsy "sessionId" of a frame that carries none, and "no handle".
NoId == 0
NoConn == 0

None == "None"
Modes == {"ACT", "PLAN"}
QualityLevels == {"advanced"}
\* The mode a message carries (it is only passed on); the request's default.
MessageModes == {"ACT"}
Texts == UNION {[1 .. n -> {"h"}] : n \in 0 .. MaxLen}

\* Python truthiness of a stored upstream reference.
Truthy(v) == v \notin {None, ""}

\* dict.get(key) with the default None.
Get(d, k) == IF k \in DOMAIN d THEN d[k] ELSE None

\* dict.update(patch).
Update(d, p) ==
    [k \in (DOMAIN d) \cup (DOMAIN p) |-> IF k \in DOMAIN p THEN p[k] ELSE d[k]]

(***************************************************************************)
(* websocket_connections is a dict, and the disconnect handler depends on  *)
(* its iteration (insertion) order: it is a sequence of <<key, value>>.    *)
(***************************************************************************)
HasKey(d, k) == \E i \in 1 .. Len(d) : d[i][1] = k
Lookup(d, k) == d[CHOOSE i \in 1 .. Len(d) : d[i][1] = k][2]
Put(d, k, v) ==
    IF HasKey(d, k)
    THEN [i \in 1 .. Len(d) |-> IF d[i][1] = k THEN <<k, v>> ELSE d[i]]
    ELSE Append(d, <<k, v>>)
DelKey(d, k) == SelectSeq(d, LAMBDA e : e[1] # k)

(***************************************************************************)
(* What the enhanced tier can answer.  outcome: the request raised         *)
(* (unreachable, timeout), or returned a status other than 200 (error) or  *)
(* 200 (ok).  json: what response.json() does with the body of a 200: it   *)
(* raises (invalid), returns a value that is no dict (array), or a dict    *)
(* (object) with the fields given.                                         *)
(***************************************************************************)
Failures == {[outcome |-> o, json |-> "invalid"] : o \in {"unreachable", "timeout", "error"}}
Answers == Failures \cup {[outcome |-> "ok", json |-> j] : j \in {"invalid", "array", "object"}}
\* Ok(payload): status 200 and a body that decodes to a JSON object.
Ok(a) == a.outcome = "ok" /\ a.json = "object"
\* Faulty variant: an expired timeout is not taken as a failed request.
Raised_NoTimeout(a) == a.outcome = "unreachable"

\* The request raised: httpx.ConnectError or httpx.TimeoutException.
Raised(a) == a.outcome \in {"unreachable", "timeout"}

\* The "sessionId" of a creation answer (None: the key is missing or null).
UpstreamRefs == {"u1", None}
\* The status dict of a status read.
Patches ==
    { [status |-> "busy"],
      [id |-> NoId, api_type |-> "basic", enhanced_session_id |-> None] }
\* The "content" of a message answer (<<>>: the key is missing or empty).
Contents == {<<"ok">>, <<>>}

VARIABLES
    active_sessions,        \* session id -> session dict
    websocket_connections,  \* ordered dict session id -> connection handle
    req,                    \* the HTTP handlers in flight, by slot
    ws,                     \* the WebSocket handlers, by connection handle;
                            \* replaced: history, another connection's join
                            \* took over a subscription of this running handler
    resp,                   \* the HTTP response this step returned, if any
    sent,                   \* the frame this step's WebSocket handler sent, if any
    nCalls                  \* HTTP requests received so far

vars == <<active_sessions, websocket_connections, req, ws, resp, sent, nCalls>>

Idle ==
    [pc |-> "idle", op |-> "none", sid |-> NoId, mode |-> "", text |-> <<>>,
     quality |-> "", tier |-> "", outcome |-> "none", path |-> "", content |-> <<>>,
     prev |-> "", before |-> "", target |-> NoConn]

\* No event was delivered.
NoEvent == [type |-> "", content |-> <<>>, mode |-> ""]

NoResp ==
    [op |-> "none", sid |-> NoId, status |-> 0, tier |-> "", ref |-> None,
     outcome |-> "none", json |-> "", upstream |-> 0, fallback |-> FALSE,
     mode |-> "", text |-> <<>>, content |-> <<>>, previousMode |-> "",
     currentMode |-> "", before |-> "", push |-> "none", pushTo |-> NoConn,
     event |-> NoEvent]

NoFrame == [to |-> NoConn, type |-> "", sid |-> NoId, mode |-> ""]

Init ==
    /\ active_sessions = <<>>
    /\ websocket_connections = <<>>
    /\ req = [r \in Reqs |-> Idle]
    /\ ws = [c \in Conns |-> [pc |-> "new", alive |-> FALSE, replaced |-> FALSE]]
    /\ sent = NoFrame
    /\ resp = NoResp
    /\ nCalls = 0

Known(sid) == sid \in DOMAIN active_sessions

\* uuid.uuid4(): an id no session and no creation in flight has.  Ids are
\* opaque, so the model hands them out in increasing order.
UsedIds ==
    (DOMAIN active_sessions) \cup {req[q].sid : q \in {p \in Reqs : req[p].op = "create"}}
FreshIds == {id \in SessionIds : id \notin UsedIds /\ \A j \in 1 .. id - 1 : j \in UsedIds}

\* A request arrives and its handler starts, in the first free slot.
Receive(r) ==
    /\ req[r].pc = "idle" /\ \A q \in 1 .. r - 1 : req[q].pc # "idle"
    /\ nCalls < MaxCalls /\ nCalls' = nCalls + 1
    /\ sent' = NoFrame

\* The handler in slot r returns (or raises HTTPException): the response goes out.
Return(r, answer) ==
    /\ req' = [req EXCEPT ![r] = Idle]
    /\ resp' = answer

(***************************************************************************)
(* create_chat_session                                                     *)
(***************************************************************************)
create_chat_session(r, mode, quality) ==
    /\ Receive(r)
    /\ \E id \in FreshIds :
         req' = [req EXCEPT ![r] =
                   [Idle EXCEPT !.pc = "create_wait", !.op = "create",
                                !.sid = id, !.mode = mode, !.quality = quality]]
    /\ resp' = NoResp /\ UNCHANGED <<active_sessions, websocket_connections, ws>>

EnhancedSession(id, mode, quality, ref) ==
    [id |-> id, mode |-> mode, qualityLevel |-> quality,
     enhanced_session_id |-> ref, api_type |-> "enhanced", status |-> "active"]

BasicSession(id, mode, quality) ==
    [id |-> id, mode |-> mode, qualityLevel |-> quality,
     api_type |-> "basic", status |-> "active"]

\* Faulty variant: the status code is not looked at.
CreatedSession_NoStatusCheck(id, mode, quality, a, ref) ==
    IF Ok(a) \/ a.outcome = "error"
    THEN EnhancedSession(id, mode, quality, ref)
    ELSE BasicSession(id, mode, quality)

\* The session the creation stores, given the enhanced tier's answer.
CreatedSession(id, mode, quality, a, ref) ==
    IF Ok(a)
    THEN EnhancedSession(id, mode, quality, ref)
    ELSE BasicSession(id, mode, quality)

create_chat_session_done(r, a, ref) ==
    /\ req[r].pc = "create_wait"
    /\ LET id == req[r].sid
           s == CreatedSession(id, req[r].mode, req[r].quality, a, ref)
       IN /\ active_sessions' = (id :> s) @@ active_sessions
          /\ Return(r, [NoResp EXCEPT !.op = "create", !.sid = id, !.status = 200,
                                      !.tier = s.api_type,
                                      !.ref = Get(s, "enhanced_session_id"),
                                      !.outcome = a.outcome, !.json = a.json,
                                      !.upstream = 1,
                                      !.fallback = (s.api_type = "basic"),
                                      !.mode = req[r].mode])
    /\ sent' = NoFrame
    /\ UNCHANGED <<websocket_connections, ws, nCalls>>

\* The handlers reach the enhanced tier only for a session stored as enhanced
\* with a truthy enhanced_session_id.
UsesEnhanced(s) ==
    Get(s, "api_type") = "enhanced" /\ Truthy(Get(s, "enhanced_session_id"))

NotFound(op, sid) == [NoResp EXCEPT !.op = op, !.sid = sid, !.status = 404]

\* The except clause of send_chat_message and switch_session_mode.
InternalError(q, a) ==
    [NoResp EXCEPT !.op = q.op, !.sid = q.sid, !.status = 500, !.tier = q.tier,
                   !.outcome = a.outcome, !.json = a.json, !.upstream = 1,
                   !.mode = q.mode, !.text = q.text, !.before = q.before]

\* Faulty variant: the event is built without the content.
Event_NoContent(q) ==
    [type |-> IF q.op = "send" THEN "agent_response" ELSE "mode_switched",
     content |-> <<>>, mode |-> q.mode]

\* The message handed to broadcast_to_session: "agent_response" with the
\* content of the answer, or "mode_switched" with the new mode.
Event(q) ==
    [type |-> IF q.op = "send" THEN "agent_response" ELSE "mode_switched",
     content |-> q.content, mode |-> q.mode]

\* The success payload of send_chat_message or switch_session_mode for the
\* locals q; modeNow is the session's mode when the return statement runs.
Success(q, modeNow, pushed, to) ==
    [NoResp EXCEPT !.op = q.op, !.sid = q.sid, !.status = 200, !.tier = q.tier,
                   !.outcome = q.outcome,
                   !.upstream = IF q.outcome = "none" THEN 0 ELSE 1,
                   !.fallback = (q.path = "basic"),
                   !.mode = q.mode, !.text = q.text, !.content = q.content,
                   !.previousMode = IF q.op # "switch" THEN ""
                                    ELSE IF q.path = "enhanced" THEN modeNow
                                    ELSE q.prev,
                   !.currentMode = IF q.op = "switch" THEN q.mode ELSE "",
                   !.before = q.before, !.push = pushed, !.pushTo = to,
                   !.event = IF pushed = "delivered" THEN Event(q) ELSE NoEvent]

(***************************************************************************)
(* "if session_id in websocket_connections: await broadcast_to_session":   *)
(* with a subscriber the handler suspends in its send_text, without one it *)
(* goes on to its return statement.                                        *)
(***************************************************************************)
Broadcast(r, q, modeNow) ==
    IF HasKey(websocket_connections, q.sid)
    THEN /\ req' = [req EXCEPT ![r] =
                      [q EXCEPT !.pc = "push",
                                !.target = Lookup(websocket_connections, q.sid)]]
         /\ resp' = NoResp
    ELSE Return(r, Success(q, modeNow, "none", NoConn))

\* send_text on a handle succeeds while its peer is there and its handler runs.
Healthy(c) == ws[c].alive /\ ws[c].pc = "recv"

\* The except clause of broadcast_to_session.
RemoveDead(d, sid) == IF HasKey(d, sid) THEN DelKey(d, sid) ELSE d

\* Faulty variant: a failed send_text is raised to the caller.
broadcast_to_session_Raises(r) ==
    /\ req[r].pc = "push"
    /\ LET q == req[r]
           ok == Healthy(q.target)
       IN /\ websocket_connections' =
                IF ok THEN websocket_connections
                ELSE RemoveDead(websocket_connections, q.sid)
          /\ Return(r, IF ok
                       THEN Success(q, active_sessions[q.sid].mode, "delivered", q.target)
                       ELSE InternalError(q, [outcome |-> q.outcome, json |-> ""]))
    /\ sent' = NoFrame
    /\ UNCHANGED <<active_sessions, ws, nCalls>>

broadcast_to_session(r) ==
    /\ req[r].pc = "push"
    /\ LET q == req[r]
           ok == Healthy(q.target)
       IN /\ websocket_connections' =
                IF ok THEN websocket_connections
                ELSE RemoveDead(websocket_connections, q.sid)
          /\ Return(r, Success(q, active_sessions[q.sid].mode,
                               IF ok THEN "delivered" ELSE "failed", q.target))
    /\ sent' = NoFrame
    /\ UNCHANGED <<active_sessions, ws, nCalls>>

(***************************************************************************)
(* get_chat_session                                                        *)
(***************************************************************************)
SessionView(op, sid, s, a, n) ==
    [NoResp EXCEPT !.op = op, !.sid = sid, !.status = 200,
                   !.tier = Get(s, "api_type"),
                   !.ref = Get(s, "enhanced_session_id"),
                   !.outcome = a.outcome, !.json = a.json, !.upstream = n,
                   !.mode = Get(s, "mode")]

NoAnswer == [outcome |-> "none", json |-> ""]

\* Faulty variant: an unknown id is read as an empty session.
get_chat_session_NoCheck(r, sid) ==
    /\ Receive(r)
    /\ IF ~Known(sid)
       THEN Return(r, [NoResp EXCEPT !.op = "get", !.sid = sid, !.status = 200])
       ELSE IF UsesEnhanced(active_sessions[sid])
       THEN /\ req' = [req EXCEPT ![r] =
                         [Idle EXCEPT !.pc = "get_wait", !.op = "get", !.sid = sid]]
            /\ resp' = NoResp
       ELSE Return(r, SessionView("get", sid, active_sessions[sid], NoAnswer, 0))
    /\ UNCHANGED <<active_sessions, websocket_connections, ws>>

get_chat_session(r, sid) ==
    /\ Receive(r)
    /\ IF ~Known(sid)
       THEN resp' = NotFound("get", sid) /\ req' = req
       ELSE IF UsesEnhanced(active_sessions[sid])
       THEN /\ req' = [req EXCEPT ![r] =
                         [Idle EXCEPT !.pc = "get_wait", !.op = "get", !.sid = sid]]
            /\ resp' = NoResp
       ELSE Return(r, SessionView("get", sid, active_sessions[sid], NoAnswer, 0))
    /\ UNCHANGED <<active_sessions, websocket_connections, ws>>

\* Faulty variant: the status is merged whatever the read returned.
MergeStatus_Always(s, a, patch) == Update(s, patch)

\* session.update(enhanced_status) on a 200 whose body is a dict.
MergeStatus(s, a, patch) == IF Ok(a) THEN Update(s, patch) ELSE s

get_chat_session_done(r, a, patch) ==
    /\ req[r].pc = "get_wait"
    /\ LET sid == req[r].sid
           s == MergeStatus(active_sessions[sid], a, patch)
       IN /\ active_sessions' = [active_sessions EXCEPT ![sid] = s]
          /\ Return(r, SessionView("get", sid, s, a, 1))
    /\ sent' = NoFrame
    /\ UNCHANGED <<websocket_connections, ws, nCalls>>

(***************************************************************************)
(* send_chat_message                                                       *)
(***************************************************************************)
\* Faulty variant: the message is left out of the reply.
basic_response_NoEcho(text) == <<"Received message: ">>

\* f"Received message: {request.message}"
basic_response(text) == <<"Received message: ">> \o text

BasicSend(r, q) ==
    Broadcast(r, [q EXCEPT !.path = "basic", !.content = basic_response(q.text)],
              active_sessions[q.sid].mode)

send_chat_message(r, sid, text, mode) ==
    /\ Receive(r)
    /\ IF ~Known(sid)
       THEN resp' = NotFound("send", sid) /\ req' = req
       ELSE LET s == active_sessions[sid]
                q == [Idle EXCEPT !.op = "send", !.sid = sid, !.mode = mode,
                                  !.text = text, !.tier = Get(s, "api_type")]
            IN IF UsesEnhanced(s)
               THEN req' = [req EXCEPT ![r] = [q EXCEPT !.pc = "send_wait"]]
                    /\ resp' = NoResp
               ELSE BasicSend(r, q)
    /\ UNCHANGED <<active_sessions, websocket_connections, ws>>

send_chat_message_done(r, a, content) ==
    /\ req[r].pc = "send_wait"
    /\ LET q == [req[r] EXCEPT !.outcome = a.outcome]
       IN IF Raised(a) \/ (a.outcome = "ok" /\ a.json = "invalid")
          THEN Return(r, InternalError(q, a))
          ELSE IF a.outcome = "error"
          THEN BasicSend(r, q)
          ELSE IF HasKey(websocket_connections, q.sid) /\ a.json = "array"
          THEN Return(r, InternalError(q, a))
          ELSE Broadcast(r, [q EXCEPT !.path = "enhanced",
                                      !.content = IF a.json = "object"
                                                  THEN content ELSE <<>>],
                         active_sessions[q.sid].mode)
    /\ sent' = NoFrame
    /\ UNCHANGED <<active_sessions, websocket_connections, ws, nCalls>>

(***************************************************************************)
(* switch_session_mode                                                     *)
(***************************************************************************)
\* Faulty variant: the switch also touches the session's status.
SetMode_AndStatus(sid, mode) ==
    [active_sessions EXCEPT ![sid].mode = mode, ![sid].status = "switched"]

\* session["mode"] = mode
SetMode(sid, mode) == [active_sessions EXCEPT ![sid].mode = mode]

\* previous_mode = session.get("mode", "ACT")
PreviousMode(s) == IF "mode" \in DOMAIN s THEN s.mode ELSE "ACT"

BasicSwitch(r, q) ==
    LET previous_mode == PreviousMode(active_sessions[q.sid])
    IN /\ active_sessions' = SetMode(q.sid, q.mode)
       /\ Broadcast(r, [q EXCEPT !.path = "basic", !.prev = previous_mode,
                                 !.before = previous_mode], q.mode)

switch_session_mode(r, sid, mode) ==
    /\ Receive(r)
    /\ IF ~Known(sid)
       THEN resp' = NotFound("switch", sid) /\ req' = req
            /\ active_sessions' = active_sessions
       ELSE LET s == active_sessions[sid]
                q == [Idle EXCEPT !.op = "switch", !.sid = sid, !.mode = mode,
                                  !.tier = Get(s, "api_type")]
            IN IF UsesEnhanced(s)
               THEN /\ req' = [req EXCEPT ![r] = [q EXCEPT !.pc = "switch_wait"]]
                    /\ resp' = NoResp
                    /\ active_sessions' = active_sessions
               ELSE BasicSwitch(r, q)
    /\ UNCHANGED <<websocket_connections, ws>>

switch_session_mode_done(r, a) ==
    /\ req[r].pc = "switch_wait"
    /\ LET q == [req[r] EXCEPT !.outcome = a.outcome]
       IN IF Raised(a) \/ (a.outcome = "ok" /\ a.json = "invalid")
          THEN Return(r, InternalError(q, a))
               /\ active_sessions' = active_sessions
          ELSE IF a.outcome = "error"
          THEN BasicSwitch(r, q)
          ELSE LET q2 == [q EXCEPT !.path = "enhanced",
                                   !.before = active_sessions[q.sid].mode]
               IN /\ active_sessions' = SetMode(q.sid, q.mode)
                  /\ IF HasKey(websocket_connections, q.sid) /\ a.json = "array"
                     THEN Return(r, InternalError(q2, a))
                     ELSE Broadcast(r, q2, q.mode)
    /\ sent' = NoFrame
    /\ UNCHANGED <<websocket_connections, ws, nCalls>>

(***************************************************************************)
(* websocket_endpoint: one handler per connection, a loop over the frames  *)
(* it receives.  The send_text that answers a frame is the last statement  *)
(* of the loop's iteration and nothing is read after it, so it is part of  *)
(* the frame's step, with its outcome (how) chosen there: "sent", or the   *)
(* exception that ends the handler.                                        *)
(***************************************************************************)
Handler(pc, alive) == [pc |-> pc, alive |-> alive, replaced |-> FALSE]

\* The handler h ends in its exception clause how.
Ended(h, how) == [h EXCEPT !.pc = how, !.alive = FALSE]

Outbound(c, type, sid, mode) == [to |-> c, type |-> type, sid |-> sid, mode |-> mode]

\* "if session_id and session_id in active_sessions"
ValidId(sid) == sid # NoId /\ Known(sid)

\* A frame arrives on a connection whose handler waits in receive_text.
Frame(c) == ws[c].pc = "recv" /\ ws[c].alive

\* websocket.accept(): handles are opaque, the model hands them out in order.
websocket_accept(c) ==
    /\ ws[c].pc = "new" /\ \A d \in 1 .. c - 1 : ws[d].pc # "new"
    /\ ws' = [ws EXCEPT ![c] = Handler("recv", TRUE)]
    /\ resp' = NoResp /\ sent' = NoFrame
    /\ UNCHANGED <<active_sessions, websocket_connections, req, nCalls>>

\* The client goes away: from now on send_text and receive_text raise.
peer_gone(c) ==
    /\ ws[c].pc = "recv" /\ ws[c].alive
    /\ ws' = [ws EXCEPT ![c].alive = FALSE]
    /\ resp' = NoResp /\ sent' = NoFrame
    /\ UNCHANGED <<active_sessions, websocket_connections, req, nCalls>>

\* "except WebSocketDisconnect": the first entry, in the dict's order, whose
\* value is this handle is deleted, and the loop breaks.
\* Faulty variant: the disconnect drops the most recent subscription,
\* whichever connection holds it.
RemoveConnection_BySession(d, c) ==
    IF d # <<>> THEN SubSeq(d, 1, Len(d) - 1) ELSE d

RemoveConnection(d, c) ==
    IF \E i \in 1 .. Len(d) : d[i][2] = c
    THEN LET k == CHOOSE i \in 1 .. Len(d) :
                    d[i][2] = c /\ \A j \in 1 .. i - 1 : d[j][2] # c
         IN [i \in 1 .. Len(d) - 1 |-> IF i < k THEN d[i] ELSE d[i + 1]]
    ELSE d

\* What the handler's exception clauses do to the map d: WebSocketDisconnect
\* ("disconnected") removes the connection, any other exception ("closed")
\* closes the socket and leaves the map alone.
Cleanup(d, c, how) == IF how = "disconnected" THEN RemoveConnection(d, c) ELSE d

Outcomes == {"sent", "disconnected", "closed"}

\* The handler answers a frame with send_text(type ...): the map is d and the
\* handlers are w by then.
Answer(c, w, d, type, sid, mode, how) ==
    IF how = "sent"
    THEN /\ ws' = w
         /\ websocket_connections' = d
         /\ sent' = Outbound(c, type, sid, mode)
    ELSE /\ ws' = [w EXCEPT ![c] = Ended(w[c], how)]
         /\ websocket_connections' = Cleanup(d, c, how)
         /\ sent' = NoFrame

\* "websocket_connections[session_id] = websocket" overwrites the entry of the
\* connection that was subscribed: the history of that connection notes it.
Replaced(w, d, sid, c) ==
    [x \in Conns |->
        IF x # c /\ HasKey(d, sid) /\ Lookup(d, sid) = x /\ w[x].pc = "recv"
        THEN [w[x] EXCEPT !.replaced = TRUE]
        ELSE w[x]]

\* Faulty variant: the id of the frame is not looked up in active_sessions.
join_session_NoCheck(c, sid, how) ==
    /\ Frame(c)
    /\ IF sid # NoId
       THEN Answer(c, Replaced(ws, websocket_connections, sid, c),
                   Put(websocket_connections, sid, c), "session_joined", sid,
                   "", how)
       ELSE how = "sent" /\ sent' = NoFrame /\ UNCHANGED <<websocket_connections, ws>>
    /\ resp' = NoResp /\ UNCHANGED <<active_sessions, req, nCalls>>

join_session(c, sid, how) ==
    /\ Frame(c)
    /\ IF ValidId(sid)
       THEN Answer(c, Replaced(ws, websocket_connections, sid, c),
                   Put(websocket_connections, sid, c), "session_joined", sid,
                   "", how)
       ELSE how = "sent" /\ sent' = NoFrame /\ UNCHANGED <<websocket_connections, ws>>
    /\ resp' = NoResp /\ UNCHANGED <<active_sessions, req, nCalls>>

chat_message(c, sid, mode, how) ==
    /\ Frame(c)
    /\ IF ValidId(sid)
       THEN Answer(c, ws, websocket_connections, "user_message", sid, mode, how)
       ELSE how = "sent" /\ sent' = NoFrame /\ UNCHANGED <<websocket_connections, ws>>
    /\ resp' = NoResp /\ UNCHANGED <<active_sessions, req, nCalls>>

switch_mode(c, sid, mode, how) ==
    /\ Frame(c)
    /\ IF ValidId(sid)
       THEN /\ active_sessions' = SetMode(sid, mode)
            /\ Answer(c, ws, websocket_connections, "mode_switched", sid, mode, how)
       ELSE /\ how = "sent" /\ sent' = NoFrame
            /\ UNCHANGED <<active_sessions, websocket_connections, ws>>
    /\ resp' = NoResp /\ UNCHANGED <<req, nCalls>>

\* receive_text raises WebSocketDisconnect.
websocket_disconnect(c) ==
    /\ ws[c].pc = "recv" /\ ~ws[c].alive
    /\ ws' = [ws EXCEPT ![c] = Ended(ws[c], "disconnected")]
    /\ websocket_connections' = Cleanup(websocket_connections, c, "disconnected")
    /\ resp' = NoResp /\ sent' = NoFrame
    /\ UNCHANGED <<active_sessions, req, nCalls>>

\* json.loads raises, or the frame is no JSON object: "except Exception".
bad_frame(c) ==
    /\ Frame(c)
    /\ ws' = [ws EXCEPT ![c] = Ended(ws[c], "closed")]
    /\ websocket_connections' = Cleanup(websocket_connections, c, "closed")
    /\ resp' = NoResp /\ sent' = NoFrame
    /\ UNCHANGED <<active_sessions, req, nCalls>>

(***************************************************************************)
(* Claims                                                                  *)
(***************************************************************************)
Sessions == DOMAIN active_sessions
Subscriber(d, sid) == IF HasKey(d, sid) THEN Lookup(d, sid) ELSE NoConn
SubscribedTo(d, c) == {d[i][1] : i \in {j \in 1 .. Len(d) : d[j][2] = c}}
Contains(content, text) ==
    \E i \in 1 .. Len(content) + 1 :
        /\ i + Len(text) - 1 <= Len(content)
        /\ SubSeq(content, i, i + Len(text) - 1) = text

\* C1: every creation registers exactly one session, under an id the registry
\* did not hold, and leaves the others alone; the session is enhanced, with
\* the reference the enhanced tier returned, exactly when the creation call
\* returned Ok(payload), and basic with no enhanced_session_id otherwise.
C1_CreateRegistersOneSession ==
    [][\A r \in Reqs, a \in Answers, u \in UpstreamRefs :
         create_chat_session_done(r, a, u) =>
           LET id == req[r].sid
               s == active_sessions'[id]
           IN /\ id \notin Sessions
              /\ DOMAIN active_sessions' = Sessions \cup {id}
              /\ \A o \in Sessions : active_sessions'[o] = active_sessions[o]
              /\ resp'.status = 200 /\ resp'.sid = id /\ resp'.tier = s.api_type
              /\ IF Ok(a)
                 THEN s.api_type = "enhanced" /\ Get(s, "enhanced_session_id") = u
                 ELSE s.api_type = "basic" /\ "enhanced_session_id" \notin DOMAIN s
      ]_vars

\* An enhanced creation has just returned, after one that fell back to basic.
C1_Witness ==
    /\ resp.op = "create" /\ resp.tier = "enhanced" /\ resp.ref = "u1"
    /\ \E o \in Sessions : active_sessions[o].api_type = "basic"

\* C2: a get, send or switch call naming an id the registry does not hold
\* returns 404 without an upstream call, and the step leaves the session
\* table and the subscription map as they were.
C2_UnknownIdNotFound ==
    [][(resp'.op \in {"get", "send", "switch"} /\ resp'.sid \notin Sessions) =>
         /\ resp'.status = 404
         /\ resp'.upstream = 0
         /\ req' = req
         /\ UNCHANGED <<active_sessions, websocket_connections>>
      ]_vars

\* A switch call on an unknown id has returned 404 while a session and a
\* subscription exist.
C2_Witness ==
    /\ resp.op = "switch" /\ resp.status = 404 /\ resp.sid \notin Sessions
    /\ Sessions # {} /\ websocket_connections # <<>>

\* C3: a send or switch call whose upstream request was unreachable or timed
\* out returns success, answered by the local behaviour.
C3_UnreachableRecovered ==
    (resp.op \in {"send", "switch"} /\ resp.outcome \in {"unreachable", "timeout"})
        => (resp.status = 200 /\ resp.fallback)

\* C4: a send or switch call whose upstream request returned a status other
\* than 200 is reported as a failure, not answered by the local fallback.
C4_UpstreamErrorSurfaced ==
    (resp.op \in {"send", "switch"} /\ resp.outcome = "error")
        => (resp.status # 200 /\ ~resp.fallback)

\* C5: no step changes a registered session's id, api_type or
\* enhanced_session_id.
C5_IdentityImmutable ==
    [][\A o \in Sessions :
         /\ active_sessions'[o].id = active_sessions[o].id
         /\ active_sessions'[o].api_type = active_sessions[o].api_type
         /\ Get(active_sessions'[o], "enhanced_session_id")
              = Get(active_sessions[o], "enhanced_session_id")
      ]_vars

\* C6: every session stored as enhanced has a non-empty enhanced_session_id.
C6_EnhancedHasRef ==
    \A o \in Sessions :
        active_sessions[o].api_type = "enhanced"
            => Truthy(Get(active_sessions[o], "enhanced_session_id"))

\* C7: a send call on a session that is basic when the call arrives makes no
\* upstream call and returns success with a content that contains the text.
C7_BasicSendIsLocal ==
    (resp.op = "send" /\ resp.tier = "basic") =>
        /\ resp.status = 200
        /\ resp.upstream = 0
        /\ Contains(resp.content, resp.text)

\* A send call with a non-empty text has returned for a basic session that
\* had a subscriber.
C7_Witness ==
    /\ resp.op = "send" /\ resp.tier = "basic" /\ resp.status = 200
    /\ resp.text # <<>> /\ resp.push = "delivered"

\* C8: a session has at most one subscriber; a join makes the joining
\* connection the subscriber; the subscriber D of a session stays its
\* subscriber until another connection joins the session, D's handler ends or
\* a delivery to D fails; and every push that starts goes to the subscriber.
C8_LastJoinWins ==
    [][\A o \in SessionIds :
         LET D == Subscriber(websocket_connections, o)
             E == Subscriber(websocket_connections', o)
         IN /\ Cardinality({i \in 1 .. Len(websocket_connections') :
                              websocket_connections'[i][1] = o}) <= 1
            /\ (sent'.type = "session_joined" /\ sent'.sid = o) => E = sent'.to
            /\ (D # NoConn /\ E # D) =>
                 \/ \E c \in Conns \ {D}, how \in Outcomes : join_session(c, o, how)
                 \/ ws[D].pc = "recv" /\ ws'[D].pc # "recv"
                 \/ resp'.push = "failed" /\ resp'.pushTo = D
            /\ \A r \in Reqs :
                 (req'[r].pc = "push" /\ req[r].pc # "push" /\ req'[r].sid = o)
                     => req'[r].target = D /\ D # NoConn
      ]_vars

\* C9: no subscription refers to a connection whose handler has handled its
\* disconnect.
C9_DisconnectedUnsubscribed ==
    \A c \in Conns :
        ws[c].pc = "disconnected" => SubscribedTo(websocket_connections, c) = {}

\* C10: a successful switch call returns as previousMode the mode the
\* registry held just before the call's update and as currentMode the mode
\* asked for, which is the registry's mode right after the update.
C10_SwitchReturnsPreviousMode ==
    [][/\ (resp'.op = "switch" /\ resp'.status = 200) =>
             /\ resp'.previousMode = resp'.before
             /\ resp'.currentMode = resp'.mode
       /\ \A r \in Reqs :
             (req'[r].op = "switch" /\ req'[r].pc = "push" /\ req[r].pc # "push")
                 => active_sessions'[req'[r].sid].mode = req'[r].mode
       /\ (resp'.op = "switch" /\ resp'.before # "" /\ resp'.push = "none")
             => active_sessions'[resp'.sid].mode = resp'.mode
      ]_vars

C12_SendPushesMatchingContent ==
    [][\A r \in Reqs :
         /\ (req'[r].op = "send" /\ req'[r].pc = "push" /\ req[r].pc # "push") =>
               /\ HasKey(websocket_connections, req'[r].sid)
               /\ req'[r].target = Lookup(websocket_connections, req'[r].sid)
               /\ resp'.event = NoEvent
         /\ (resp'.op = "send" /\ resp'.status = 200
                /\ \A q \in Reqs : req[q].pc = "push" => req'[q].pc = "push") =>
               /\ ~HasKey(websocket_connections, resp'.sid)
               /\ resp'.event = NoEvent
         /\ (req[r].op = "send" /\ req[r].pc = "push") =>
               /\ req'[r].pc \in {"push", "idle"}
               /\ (req'[r].pc = "idle" /\ Healthy(req[r].target)) =>
                     /\ resp'.status = 200 /\ resp'.push = "delivered"
                     /\ resp'.pushTo = req[r].target
                     /\ resp'.event.type = "agent_response"
                     /\ resp'.event.content = resp'.content
                     /\ resp'.content = req[r].content
      ]_vars

\* A send call on an enhanced session has returned the enhanced tier's
\* content after delivering it to the session's subscriber.
C12_Witness ==
    /\ resp.op = "send" /\ resp.status = 200 /\ resp.tier = "enhanced"
    /\ ~resp.fallback /\ resp.push = "delivered" /\ resp.content = <<"ok">>
    /\ resp.event.content = <<"ok">>

\* C13: when a push to handle H for session s fails, the step that handles
\* the failure leaves s without a subscriber if H was still its subscriber,
\* leaves the subscriber of s in place if another connection had joined s
\* while the push was in flight, and changes no other session's subscriber.
C13_FailedPushRemovesOnlyTarget ==
    [][\A r \in Reqs :
         (req[r].pc = "push" /\ req'[r].pc = "idle" /\ resp'.push = "failed") =>
             LET s == req[r].sid
                 H == req[r].target
                 D == Subscriber(websocket_connections, s)
             IN /\ Subscriber(websocket_connections', s)
                     = IF D = H THEN NoConn ELSE D
                /\ \A o \in SessionIds \ {s} :
                      Subscriber(websocket_connections', o)
                          = Subscriber(websocket_connections, o)
      ]_vars

\* How the answer of connection c's handler went in this step, read from where
\* the handler is afterwards: an answer that raised has ended the handler.
HowAnswered(c) == IF ws'[c].pc = "recv" THEN "sent" ELSE ws'[c].pc

\* C14: when the handler of a connection that is the subscriber of no session
\* handles its disconnect, the subscription map stays as it was: a connection
\* that was replaced as subscriber leaves the connection that replaced it, and
\* every other subscription, in place.
C14_StaleDisconnectIsNoOp ==
    [][\A c \in Conns :
         ( /\ ws[c].pc = "recv" /\ ws'[c].pc = "disconnected"
           /\ SubscribedTo(websocket_connections, c) = {}
           /\ ~\E s \in SessionIds, how \in Outcomes : join_session(c, s, how) )
             => websocket_connections' = websocket_connections
      ]_vars

\* Connection 1 was replaced as a subscriber while its handler ran and has
\* handled its disconnect; connection 2 is subscribed and connection 1 is not.
C14_Witness ==
    /\ ws[1].pc = "disconnected" /\ ws[1].replaced
    /\ SubscribedTo(websocket_connections, 1) = {}
    /\ SubscribedTo(websocket_connections, 2) # {}
    /\ ws[2].pc = "recv" /\ ~ws[2].replaced

\* What a handler returns when its upstream request raises.
RaisedStatus(op) == IF op = "get" THEN 200 ELSE 500

Waits == {"get_wait", "send_wait", "switch_wait"}

\* C15: a get, send or switch call starts an upstream request only as its
\* first step, the answer to the request takes the call to its push or to its
\* return, with or without the local fallback, and the push takes it to its
\* return: no stage is entered twice.  A request that timed out and one
\* that was unreachable both end the call at once, with the same status, no
\* fallback, no push and no change of the session table or the map.
C15_OneAttemptOneFallback ==
    [][/\ \A r \in Reqs :
             /\ req'[r].pc \in Waits => (req[r].pc = "idle" \/ req'[r] = req[r])
             /\ req[r].pc \in Waits =>
                   (req'[r] = req[r] \/ req'[r].pc \in {"push", "idle"})
             /\ req[r].pc = "push" => (req'[r] = req[r] \/ req'[r].pc = "idle")
             /\ req'[r].path = "basic" =>
                   (req'[r] = req[r] \/ req[r].pc \in Waits \cup {"idle"})
       /\ resp'.op \in {"get", "send", "switch"} => resp'.upstream <= 1
       /\ \A r \in Reqs, o \in {"unreachable", "timeout"} :
             (req[r].pc \in Waits /\ req'[r] # req[r] /\ resp'.outcome = o) =>
                 /\ req'[r].pc = "idle"
                 /\ resp'.status = RaisedStatus(req[r].op)
                 /\ ~resp'.fallback /\ resp'.push = "none"
                 /\ UNCHANGED <<active_sessions, websocket_connections>>
       /\ \A r \in Reqs :
             (req[r].pc \in Waits /\ req'[r].pc = "idle" /\ resp'.status = 200
                /\ resp'.op \in {"send", "switch"}) =>
                 resp'.outcome \notin {"unreachable", "timeout"}
      ]_vars

\* A send call whose upstream request timed out has returned, after its one
\* attempt and without a fallback.
C15_Witness ==
    /\ resp.op = "send" /\ resp.outcome = "timeout" /\ resp.upstream = 1
    /\ ~resp.fallback /\ \A r \in Reqs : req[r].pc = "idle"

\* C16: a switch_mode frame starts no HTTP handler and no upstream request;
\* for a registered session it sets that session's mode to the mode of the
\* frame and leaves the rest of the session table as it was, for any other id
\* it changes nothing; it leaves the subscription map as it was, but for the
\* subscription of the sending connection where answering the frame ends
\* that connection's handler.
C16_FrameSwitchIsLocal ==
    [][\A c \in Conns, s \in SessionIds \cup {NoId}, m \in Modes :
         LET how == HowAnswered(c)
         IN switch_mode(c, s, m, how) =>
           /\ req' = req /\ nCalls' = nCalls /\ resp' = NoResp
           /\ IF s \in Sessions
              THEN /\ DOMAIN active_sessions' = Sessions
                   /\ active_sessions'[s].mode = m
                   /\ \A k \in DOMAIN active_sessions[s] \ {"mode"} :
                         active_sessions'[s][k] = active_sessions[s][k]
                   /\ DOMAIN active_sessions'[s] = DOMAIN active_sessions[s]
                   /\ \A o \in Sessions \ {s} :
                         active_sessions'[o] = active_sessions[o]
              ELSE UNCHANGED <<active_sessions, websocket_connections, ws>>
                   /\ sent' = NoFrame
           /\ how = "sent" => websocket_connections' = websocket_connections
           /\ \A o \in SessionIds :
                 Subscriber(websocket_connections', o)
                     # Subscriber(websocket_connections, o)
                 => (ws'[c].pc = "disconnected"
                       /\ Subscriber(websocket_connections, o) = c
                       /\ Subscriber(websocket_connections', o) = NoConn)
      ]_vars

\* A switch_mode frame for an enhanced session that has a subscriber has just
\* been answered, and the session's mode is the frame's.
C16_Witness ==
    /\ sent.type = "mode_switched" /\ sent.sid \in Sessions
    /\ active_sessions[sent.sid].api_type = "enhanced"
    /\ active_sessions[sent.sid].mode = "PLAN" /\ sent.mode = "PLAN"
    /\ HasKey(websocket_connections, sent.sid)
    /\ \A r \in Reqs : req[r].pc = "idle"

\* C17: the mode_switched event that answers a switch_mode frame for a
\* session that has a subscriber goes to that subscriber.
C17_FrameSwitchNotifiesSubscriber ==
    (sent.type = "mode_switched" /\ HasKey(websocket_connections, sent.sid))
        => sent.to = Lookup(websocket_connections, sent.sid)

\* C18: a get call on a registered session whose upstream status read has
\* been made returns success whatever the read's outcome; when the read
\* was unreachable, timed out or returned a status other than 200, the
\* session table is left as it was and the call returns the stored record.
C18_GetSurvivesFailedRefresh ==
    [][\A r \in Reqs :
         (req[r].pc = "get_wait" /\ req'[r].pc = "idle") =>
             LET s == req[r].sid
             IN /\ resp'.op = "get" /\ resp'.sid = s /\ resp'.status = 200
                /\ resp'.upstream = 1
                /\ resp'.outcome \in {"unreachable", "timeout", "error"} =>
                      /\ active_sessions' = active_sessions
                      /\ resp'.tier = Get(active_sessions[s], "api_type")
                      /\ resp'.ref = Get(active_sessions[s], "enhanced_session_id")
                      /\ resp'.mode = Get(active_sessions[s], "mode")
      ]_vars

\* A get call on an enhanced session has returned the stored record after its
\* status read timed out.
C18_Witness ==
    /\ resp.op = "get" /\ resp.status = 200 /\ resp.outcome = "timeout"
    /\ resp.tier = "enhanced" /\ resp.ref = "u1"
    /\ active_sessions[resp.sid].api_type = "enhanced"

\* C19: after every step, every session id that has an entry in the
\* subscription map is registered; no step removes a session from the
\* registry; and a join frame whose session id is missing or not registered
\* leaves the subscription map as it was and is not acknowledged.
C19_SubscribedSessionsExist ==
    [][/\ \A i \in 1 .. Len(websocket_connections') :
             websocket_connections'[i][1] \in DOMAIN active_sessions'
       /\ Sessions \subseteq DOMAIN active_sessions'
       /\ \A c \in Conns, s \in (SessionIds \cup {NoId}) \ Sessions :
             join_session(c, s, HowAnswered(c)) =>
                 /\ websocket_connections' = websocket_connections
                 /\ sent' = NoFrame
                 /\ ws' = ws
      ]_vars

\* A join frame has been acknowledged for one registered session while
\* another id is still unregistered and has no subscriber.
C19_Witness ==
    /\ sent.type = "session_joined" /\ sent.sid \in Sessions
    /\ Subscriber(websocket_connections, sent.sid) = sent.to
    /\ \E o \in SessionIds \ Sessions : ~HasKey(websocket_connections, o)

Next ==
    \/ \E r \in Reqs, m \in Modes, q \in QualityLevels : create_chat_session(r, m, q)
    \/ \E r \in Reqs, a \in Answers, u \in UpstreamRefs : create_chat_session_done(r, a, u)
    \/ \E r \in Reqs, s \in SessionIds : get_chat_session(r, s)
    \/ \E r \in Reqs, a \in Answers, p \in Patches : get_chat_session_done(r, a, p)
    \/ \E r \in Reqs, s \in SessionIds, t \in Texts, m \in MessageModes :
         send_chat_message(r, s, t, m)
    \/ \E r \in Reqs, a \in Answers, c \in Contents : send_chat_message_done(r, a, c)
    \/ \E r \in Reqs, s \in SessionIds, m \in Modes : switch_session_mode(r, s, m)
    \/ \E r \in Reqs, a \in Answers : switch_session_mode_done(r, a)
    \/ \E r \in Reqs : broadcast_to_session(r)
    \/ \E c \in Conns : websocket_accept(c)
    \/ \E c \in Conns : peer_gone(c)
    \/ \E c \in Conns, s \in SessionIds \cup {NoId}, how \in Outcomes :
         join_session(c, s, how)
    \/ \E c \in Conns, s \in SessionIds \cup {NoId}, m \in MessageModes, how \in Outcomes :
         chat_message(c, s, m, how)
    \/ \E c \in Conns, s \in SessionIds \cup {NoId}, m \in Modes, how \in Outcomes :
         switch_mode(c, s, m, how)
    \/ \E c \in Conns : websocket_disconnect(c)
    \/ \E c \in Conns : bad_frame(c)

Spec == Init /\ [][Next]_vars
====
